---- MODULE Spec2Model ----
(***************************************************************************)
(* Model of plot_scripts/gdpruler_benchmark_plot.py: the report driver     *)
(* main(), the loader load_gdpr_data() and the seven view functions.       *)
(* A run is a linear pipeline: make the output directory, load the CSV,    *)
(* print the data summary, run the seven views in order, report.           *)
(* An uncaught Python exception ends the run with exit status 1.           *)
(*                                                                         *)
(* Numbers that pandas holds as floats are exact rationals <<n, d>> in     *)
(* lowest terms with d > 0; NaN is <<0, 0>>.                               *)
(***************************************************************************)
EXTENDS Integers, Sequences, FiniteSets, TLC

\* ------------------------------------------------------------------ bounds

\* Largest number of data rows of an input table.
MaxRows == 2

\* Largest number of data rows of an input table that lacks a column.
MaxRowsDropped == 1

\* ------------------------------------------------------------- arithmetic

Abs(x) == IF x < 0 THEN -x ELSE x

RECURSIVE GCD(_, _)
GCD(a, b) == IF b = 0 THEN a ELSE GCD(b, a % b)

\* The rational n/d (d > 0) in lowest terms.
Rat(n, d) == LET g == GCD(Abs(n), d) IN <<n \div g, d \div g>>

NaN == <<0, 0>>
Zero == <<0, 1>>
One == <<1, 1>>

RatAdd(p, q) == Rat(p[1] * q[2] + q[1] * p[2], p[2] * q[2])
RatSub(p, q) == Rat(p[1] * q[2] - q[1] * p[2], p[2] * q[2])
RatMulInt(p, k) == Rat(p[1] * k, p[2])
RatDivInt(p, k) == Rat(p[1], p[2] * k)
\* Mutant of RatDiv: the quotient upside down, q / p.
RatDiv_Inverted(p, q) ==
    IF p[1] = 0 THEN Zero ELSE Rat(q[1] * p[2], q[2] * p[1])

\* p / q for q > 0
RatDiv(p, q) == Rat(p[1] * q[2], p[2] * q[1])
RatPos(p) == p[1] > 0

RECURSIVE SumSeq(_)
SumSeq(s) == IF s = <<>> THEN Zero ELSE RatAdd(Head(s), SumSeq(Tail(s)))

\* Mutant of Mean: the sum in place of the mean.
Mean_Sum(s) == SumSeq(s)

\* Series.mean(): the sum of the values divided by their number.
Mean(s) == RatDivInt(SumSeq(s), Len(s))

SetMin(S) == CHOOSE m \in S : \A x \in S : m <= x

\* sorted(...unique()): the distinct values in ascending order.
RECURSIVE SortedSeq(_)
SortedSeq(S) ==
    IF S = {} THEN <<>>
    ELSE LET m == SetMin(S) IN <<m>> \o SortedSeq(S \ {m})

Range(s) == {s[i] : i \in DOMAIN s}

\* ---------------------------------------------------------------- columns

Dimensions ==
    {"batch_size", "entry_size_bytes", "consumers", "use_encryption",
     "compression_level"}

Metrics ==
    {"entries_per_sec", "write_amplification", "avg_latency_ms",
     "logical_throughput_gib_sec"}

RequiredColumns == Dimensions \cup Metrics

LabelColumns == {"encryption_label", "compression_label", "entry_size_label"}

\* ------------------------------------------------------------ input space

BatchSizeValues == {512, 2048}
EntrySizeValues == {1024, 4096}
ConsumerValues == {4, 8}
EncryptionValues == {0, 1}
CompressionValues == {0, 9}

\* The measurements of one benchmark run, by level.
MeasureLevels == {1, 2}
Measured(level) ==
    IF level = 1
    THEN [entries_per_sec |-> <<50000, 1>>, write_amplification |-> <<1, 1>>,
          avg_latency_ms |-> <<2, 1>>, logical_throughput_gib_sec |-> <<1, 20>>]
    ELSE [entries_per_sec |-> <<70000, 1>>, write_amplification |-> <<5, 4>>,
          avg_latency_ms |-> <<7, 2>>, logical_throughput_gib_sec |-> <<1, 10>>]

FullRow(bs, es, c, enc, comp, level) ==
    [batch_size |-> bs, entry_size_bytes |-> es, consumers |-> c,
     use_encryption |-> enc, compression_level |-> comp,
     entries_per_sec |-> Measured(level).entries_per_sec,
     write_amplification |-> Measured(level).write_amplification,
     avg_latency_ms |-> Measured(level).avg_latency_ms,
     logical_throughput_gib_sec |-> Measured(level).logical_throughput_gib_sec]

RowDomain ==
    {FullRow(bs, es, c, enc, comp, level) :
        bs \in BatchSizeValues, es \in EntrySizeValues, c \in ConsumerValues,
        enc \in EncryptionValues, comp \in CompressionValues,
        level \in MeasureLevels}

Restrict(f, S) == [x \in S |-> f[x]]

SeqsUpTo(S, n) == UNION {[1..k -> S] : k \in 1..n}

\* A CSV file with a header naming `cols` and the data rows `rows`.
Table(cols, rows) ==
    [kind |-> "table", columns |-> cols,
     rows |-> [i \in DOMAIN rows |-> Restrict(rows[i], cols)]]

MissingFile == [kind |-> "missing", columns |-> {}, rows |-> <<>>]
UnparseableFile == [kind |-> "unparseable", columns |-> {}, rows |-> <<>>]

\* The input files of the model: no file, a file pandas cannot parse, a
\* table with all nine columns, a table that lacks one of them.
Inputs ==
    {MissingFile, UnparseableFile}
    \cup {Table(RequiredColumns, rows) : rows \in SeqsUpTo(RowDomain, MaxRows)}
    \cup {Table(RequiredColumns \ {c}, rows) :
            c \in RequiredColumns, rows \in SeqsUpTo(RowDomain, MaxRowsDropped)}

\* ----------------------------------------------------------------- loader

EncryptionLabel(v) ==
    CASE v = 0 -> "No Encryption" [] v = 1 -> "With Encryption" [] OTHER -> "NaN"

CompressionLabel(v) ==
    CASE v = 0 -> "No Compression" [] v = 5 -> "Medium (5)"
      [] v = 9 -> "High (9)" [] OTHER -> "NaN"

EntrySizeLabel(v) ==
    CASE v = 1024 -> "1KB" [] v = 2048 -> "2KB" [] v = 4096 -> "4KB"
      [] OTHER -> "NaN"

NoData == [columns |-> {}, rows |-> <<>>]

\* pd.read_csv: raises for a missing or unparseable file.
read_csv(file) ==
    IF file.kind = "missing" THEN [err |-> "FileNotFoundError", df |-> NoData]
    ELSE IF file.kind = "unparseable" THEN [err |-> "ParserError", df |-> NoData]
    ELSE [err |-> "none", df |-> [columns |-> file.columns, rows |-> file.rows]]

\* The columns load_gdpr_data itself reads: df['use_encryption'],
\* df['compression_level'], df['entry_size_bytes'].
LabelSourceColumns ==
    {"use_encryption", "compression_level", "entry_size_bytes"}

WithLabels(r) ==
    [c \in DOMAIN r \cup LabelColumns |->
        CASE c = "encryption_label" -> EncryptionLabel(r["use_encryption"])
          [] c = "compression_label" -> CompressionLabel(r["compression_level"])
          [] c = "entry_size_label" -> EntrySizeLabel(r["entry_size_bytes"])
          [] OTHER -> r[c]]

\* Mutant of load_gdpr_data: an unreadable file or a missing label source
\* column is passed over and whatever was read is returned.
load_gdpr_data_Lenient(file) == [err |-> "none", df |-> read_csv(file).df]

\* Mutant of load_gdpr_data: rows that get no label are dropped.
load_gdpr_data_DropUnlabelled(file) ==
    LET lenient == load_gdpr_data_Lenient(file) IN
    IF lenient.df.columns = {} THEN lenient
    ELSE [err |-> "none",
          df |-> [columns |-> lenient.df.columns \cup LabelColumns,
                  rows |-> SelectSeq(
                      [i \in DOMAIN lenient.df.rows |->
                          WithLabels(lenient.df.rows[i])],
                      LAMBDA r : \A c \in LabelColumns : r[c] # "NaN")]]

load_gdpr_data(file) ==
    LET read == read_csv(file) IN
    IF read.err # "none" THEN read
    ELSE IF ~(LabelSourceColumns \subseteq read.df.columns)
    THEN [err |-> "KeyError", df |-> NoData]
    ELSE [err |-> "none",
          df |-> [columns |-> read.df.columns \cup LabelColumns,
                  rows |-> [i \in DOMAIN read.df.rows |->
                               WithLabels(read.df.rows[i])]]]

\* ------------------------------------------------------------ aggregation

\* df[df[col] == v]
SelectEq(rows, col, v) == SelectSeq(rows, LAMBDA r : r[col] = v)

\* df[(df[c1] == v1) & (df[c2] == v2)]
SelectEq2(rows, c1, v1, c2, v2) ==
    SelectSeq(rows, LAMBDA r : r[c1] = v1 /\ r[c2] = v2)

ColumnValues(rows, col) == {rows[i][col] : i \in DOMAIN rows}

\* sorted(df[col].unique())
Unique(rows, col) == SortedSeq(ColumnValues(rows, col))

Column(rows, col) == [i \in DOMAIN rows |-> rows[i][col]]

\* rows.groupby(dim)[metric].mean(): a Series indexed by the values of dim
\* found in rows.
GroupByMean(rows, dim, metric) ==
    [k \in ColumnValues(rows, dim) |->
        Mean(Column(SelectEq(rows, dim, k), metric))]

\* Series.values: the means in ascending order of the index.
Values(data) ==
    LET keys == SortedSeq(DOMAIN data) IN [i \in DOMAIN keys |-> data[keys[i]]]

Scaled(vals, div) == [i \in DOMAIN vals |-> RatDivInt(vals[i], div)]

\* Mutant of Lookup: every missing bucket gets 0, whatever the metric.
Lookup_ZeroDefault(data, keys, div, default) ==
    [i \in DOMAIN keys |->
        IF keys[i] \in DOMAIN data THEN RatDivInt(data[keys[i]], div)
        ELSE Zero]

\* [data[k] / div if k in data.index else default for k in keys]
Lookup(data, keys, div, default) ==
    [i \in DOMAIN keys |->
        IF keys[i] \in DOMAIN data THEN RatDivInt(data[keys[i]], div)
        ELSE default]

\* The first error of a sequence of outcomes, "none" if there is none.
RECURSIVE FirstErr(_)
FirstErr(errs) ==
    IF errs = <<>> THEN "none"
    ELSE IF Head(errs) # "none" THEN Head(errs)
    ELSE FirstErr(Tail(errs))

Failed(metric) == [err |-> "KeyError", metric |-> metric, ticks |-> <<>>,
                   series |-> <<>>]

\* ------------------------------------------------------------ chart panels
\* A panel is [err, metric, ticks, series]: the outcome ("none" or the name
\* of the exception raised while building it), the column averaged, the
\* axis values in axis order and the plotted series.  A series is
\* [label, values]: values[i] is drawn at the i-th axis position.

\* The number of bars ax.bar(x, height) draws for len(x) = n and
\* len(height) = k: numpy broadcasts the two shapes, -1 stands for the
\* ValueError of shapes that do not broadcast.
BroadcastLen(n, k) ==
    IF n = k THEN n ELSE IF n = 1 THEN k ELSE IF k = 1 THEN n ELSE -1

\* The heights of the bars drawn, position by position.
Broadcast(n, height) ==
    [i \in 1..BroadcastLen(n, Len(height)) |->
        IF Len(height) = 1 THEN height[1] ELSE height[i]]

\* One panel of create_encryption_effect_plots: the bars of the rows
\* without and with encryption over sorted(df[dim].unique()).
EncryptionPanel(df, dim, metric, div) ==
    IF ~({dim, "use_encryption", metric} \subseteq df.columns)
    THEN Failed(metric)
    ELSE
    LET keys == Unique(df.rows, dim)
        no_enc == GroupByMean(SelectEq(df.rows, "use_encryption", 0), dim, metric)
        with_enc == GroupByMean(SelectEq(df.rows, "use_encryption", 1), dim, metric)
        h0 == Scaled(Values(no_enc), div)
        h1 == Scaled(Values(with_enc), div)
    IN  IF BroadcastLen(Len(keys), Len(h0)) < 0
           \/ BroadcastLen(Len(keys), Len(h1)) < 0
        THEN [err |-> "ValueError", metric |-> metric, ticks |-> keys,
              series |-> <<>>]
        ELSE [err |-> "none", metric |-> metric, ticks |-> keys,
              series |-> <<[label |-> <<0>>, values |-> Broadcast(Len(keys), h0)],
                           [label |-> <<1>>, values |-> Broadcast(Len(keys), h1)]>>]

\* for g in sorted(df[group].unique()):
\*     data = df[df[group] == g].groupby(dim)[metric].mean()
\*     values = [data[k] / div if k in data.index else default for k in keys]
GroupedPanel(df, group, dim, keys, metric, div, default) ==
    IF ~({group, dim, metric} \subseteq df.columns) THEN Failed(metric)
    ELSE
    LET groups == Unique(df.rows, group) IN
    [err |-> "none", metric |-> metric, ticks |-> keys,
     series |-> [i \in DOMAIN groups |->
        [label |-> <<groups[i]>>,
         values |-> Lookup(GroupByMean(SelectEq(df.rows, group, groups[i]),
                                       dim, metric),
                           keys, div, default)]]]

\* The (enc, comp) pairs of `combos` whose subset of df is not empty.
Present(df, combos) ==
    SelectSeq(combos, LAMBDA p :
        SelectEq2(df.rows, "use_encryption", p[1], "compression_level", p[2])
            # <<>>)

\* for (enc, comp) in combos:
\*     subset = df[(df['use_encryption'] == enc) & (df['compression_level'] == comp)]
\*     if not subset.empty:
\*         data = subset.groupby(dim)[metric].mean()
\*         values = [data[k] / div if k in data.index else default for k in keys]
ComboPanel(df, combos, dim, keys, metric, div, default) ==
    IF ~({"use_encryption", "compression_level"} \subseteq df.columns)
    THEN Failed(metric)
    ELSE
    LET present == Present(df, combos) IN
    IF present # <<>> /\ ~({dim, metric} \subseteq df.columns)
    THEN Failed(metric)
    ELSE
    [err |-> "none", metric |-> metric, ticks |-> keys,
     series |-> [i \in DOMAIN present |->
        [label |-> present[i],
         values |-> Lookup(GroupByMean(
                               SelectEq2(df.rows, "use_encryption", present[i][1],
                                         "compression_level", present[i][2]),
                               dim, metric),
                           keys, div, default)]]]

\* Panel (c) of create_writer_threads_effect_plots: the throughput of each
\* entry size normalized by its throughput at consumers_list[0], for the
\* entry sizes that have a positive mean there, and the ideal line.
ScalingPanel(df) ==
    IF ~({"entry_size_bytes", "consumers", "entries_per_sec"} \subseteq df.columns)
    THEN [err |-> "KeyError", metric |-> "entries_per_sec", ticks |-> <<>>,
          series |-> <<>>, ideal |-> <<>>]
    ELSE
    LET consumers_list == Unique(df.rows, "consumers")
        entry_sizes == Unique(df.rows, "entry_size_bytes")
        data(es) == GroupByMean(SelectEq(df.rows, "entry_size_bytes", es),
                                "consumers", "entries_per_sec")
        plotted == SelectSeq(entry_sizes, LAMBDA es :
                       /\ consumers_list[1] \in DOMAIN data(es)
                       /\ RatPos(data(es)[consumers_list[1]]))
    IN
    [err |-> "none", metric |-> "entries_per_sec", ticks |-> consumers_list,
     series |-> [i \in DOMAIN plotted |->
        [label |-> <<plotted[i]>>,
         values |-> [j \in DOMAIN consumers_list |->
            IF consumers_list[j] \in DOMAIN data(plotted[i])
            THEN RatDiv(data(plotted[i])[consumers_list[j]],
                        data(plotted[i])[consumers_list[1]])
            ELSE Zero]]],
     ideal |-> [j \in DOMAIN consumers_list |->
                   Rat(consumers_list[j], consumers_list[1])]]

\* df.groupby([rowdim, coldim])[metric].mean().unstack() / div: one row per
\* value of rowdim, one column per value of coldim, NaN where the pair has
\* no record.
Pivot(df, rowdim, coldim, metric, div) ==
    IF ~({rowdim, coldim, metric} \subseteq df.columns)
    THEN [err |-> "KeyError", metric |-> metric, ticks |-> <<>>, cols |-> <<>>,
          cells |-> <<>>]
    ELSE
    LET rowkeys == Unique(df.rows, rowdim)
        colkeys == Unique(df.rows, coldim)
        bucket(r, c) == SelectEq2(df.rows, rowdim, r, coldim, c)
    IN
    [err |-> "none", metric |-> metric, ticks |-> rowkeys, cols |-> colkeys,
     cells |-> [i \in DOMAIN rowkeys |-> [j \in DOMAIN colkeys |->
        IF bucket(rowkeys[i], colkeys[j]) = <<>> THEN NaN
        ELSE RatDivInt(Mean(Column(bucket(rowkeys[i], colkeys[j]), metric)),
                       div)]]]

\* The six (consumers, entry_size_bytes) variants of the batch analysis.
variants ==
    << <<4, 256>>, <<8, 256>>, <<4, 1024>>, <<8, 1024>>, <<4, 4096>>,
       <<8, 4096>> >>

PerThousand(v) == RatDivInt(v, 1000)

\* Mutant of Percent: the ratio itself as a percentage, 1.0 not taken off.
Percent_OfRatio(v) == RatMulInt(v, 100)

\* (wa - 1) * 100
Percent(v) == RatMulInt(RatSub(v, One), 100)

\* The y value of a batch-analysis point: K entries/sec on the left, the
\* write-amplification percentage on the right.
Converted(unit, v) == IF unit = "percent" THEN Percent(v) ELSE PerThousand(v)

\* One subplot of create_encryption_batch_analysis_plot: for each variant
\* with rows, a point at the position of every batch size the variant has.
VariantPanel(filtered, columns, metric, unit) ==
    LET batch_sizes == Unique(filtered, "batch_size")
        variant_df(v) == SelectEq2(filtered, "consumers", v[1],
                                   "entry_size_bytes", v[2])
        shown == SelectSeq(variants, LAMBDA v : variant_df(v) # <<>>)
        data(v) == GroupByMean(variant_df(v), "batch_size", metric)
        positions(v) == SelectSeq([i \in DOMAIN batch_sizes |-> i],
                            LAMBDA i : batch_sizes[i] \in DOMAIN data(v))
    IN
    IF ~({"batch_size", "consumers", "entry_size_bytes"} \subseteq columns)
       \/ (shown # <<>> /\ metric \notin columns)
    THEN [err |-> "KeyError", metric |-> metric, ticks |-> <<>>,
          series |-> <<>>]
    ELSE
    [err |-> "none", metric |-> metric, ticks |-> batch_sizes,
     series |-> [k \in DOMAIN shown |->
        [label |-> shown[k],
         xs |-> positions(shown[k]),
         ys |-> [j \in DOMAIN positions(shown[k]) |->
                    Converted(unit, data(shown[k])[batch_sizes[positions(shown[k])[j]]])]]]]

\* ------------------------------------------------------------------ views
\* A view function returns [err, skipped, chart, out]: the exception it
\* raised ("none" if it returned), whether it returned before drawing, the
\* figure it passes to plt.savefig, and the lines it printed.

Msg(text, vals) == [text |-> text, vals |-> vals]

NoPanel == [err |-> "none", metric |-> "", ticks |-> <<>>, series |-> <<>>]
NoChart == [a |-> NoPanel, b |-> NoPanel, c |-> NoPanel, d |-> NoPanel]

Figure(a, b, c, d, out) ==
    [err |-> FirstErr(<<a.err, b.err, c.err, d.err>>), skipped |-> FALSE,
     chart |-> [a |-> a, b |-> b, c |-> c, d |-> d], out |-> out]

Raised(e) == [err |-> e, skipped |-> FALSE, chart |-> NoChart, out |-> <<>>]

create_encryption_effect_plots(df) ==
    Figure(EncryptionPanel(df, "batch_size", "entries_per_sec", 1000),
           EncryptionPanel(df, "entry_size_bytes", "entries_per_sec", 1000),
           EncryptionPanel(df, "compression_level", "write_amplification", 1),
           EncryptionPanel(df, "consumers", "entries_per_sec", 1000),
           <<>>)

encryption_settings == <<0, 1>>

create_compression_effect_plots(df) ==
    IF ~(Dimensions \subseteq df.columns) THEN Raised("KeyError")
    ELSE
    Figure(GroupedPanel(df, "compression_level", "batch_size",
                        Unique(df.rows, "batch_size"),
                        "entries_per_sec", 1000, Zero),
           GroupedPanel(df, "compression_level", "entry_size_bytes",
                        Unique(df.rows, "entry_size_bytes"),
                        "entries_per_sec", 1000, Zero),
           GroupedPanel(df, "compression_level", "use_encryption",
                        encryption_settings,
                        "write_amplification", 1, One),
           GroupedPanel(df, "compression_level", "consumers",
                        Unique(df.rows, "consumers"),
                        "write_amplification", 1, One),
           <<>>)

create_entry_size_effect_plots(df) ==
    IF ~(Dimensions \subseteq df.columns) THEN Raised("KeyError")
    ELSE
    Figure(GroupedPanel(df, "entry_size_bytes", "batch_size",
                        Unique(df.rows, "batch_size"),
                        "entries_per_sec", 1000, Zero),
           GroupedPanel(df, "entry_size_bytes", "compression_level",
                        Unique(df.rows, "compression_level"),
                        "logical_throughput_gib_sec", 1, Zero),
           GroupedPanel(df, "entry_size_bytes", "use_encryption",
                        encryption_settings,
                        "entries_per_sec", 1000, Zero),
           GroupedPanel(df, "entry_size_bytes", "consumers",
                        Unique(df.rows, "consumers"),
                        "entries_per_sec", 1000, Zero),
           <<>>)

writer_combinations == << <<0, 0>>, <<0, 9>>, <<1, 0>>, <<1, 9>> >>

create_writer_threads_effect_plots(df) ==
    IF ~(Dimensions \subseteq df.columns) THEN Raised("KeyError")
    ELSE
    Figure(GroupedPanel(df, "batch_size", "consumers",
                        Unique(df.rows, "consumers"),
                        "entries_per_sec", 1000, Zero),
           ComboPanel(df, writer_combinations, "consumers",
                      Unique(df.rows, "consumers"),
                      "entries_per_sec", 1000, Zero),
           ScalingPanel(df),
           ComboPanel(df, writer_combinations, "consumers",
                      Unique(df.rows, "consumers"),
                      "avg_latency_ms", 1, Zero),
           <<>>)

enc_comp_combinations ==
    << <<0, 0>>, <<0, 5>>, <<0, 9>>, <<1, 0>>, <<1, 5>>, <<1, 9>> >>

selected_combinations == << <<0, 0>>, <<1, 0>>, <<0, 9>>, <<1, 9>> >>

create_batch_size_effect_plots(df) ==
    IF ~(Dimensions \subseteq df.columns) THEN Raised("KeyError")
    ELSE
    Figure(ComboPanel(df, enc_comp_combinations, "batch_size",
                      Unique(df.rows, "batch_size"),
                      "entries_per_sec", 1000, Zero),
           GroupedPanel(df, "entry_size_bytes", "batch_size",
                        Unique(df.rows, "batch_size"),
                        "entries_per_sec", 1000, Zero),
           GroupedPanel(df, "consumers", "batch_size",
                        Unique(df.rows, "batch_size"),
                        "avg_latency_ms", 1, Zero),
           ComboPanel(df, selected_combinations, "batch_size",
                      Unique(df.rows, "batch_size"),
                      "write_amplification", 1, One),
           <<>>)

create_heatmaps(df) ==
    Figure(Pivot(df, "batch_size", "compression_level", "entries_per_sec", 1000),
           Pivot(df, "entry_size_bytes", "use_encryption",
                 "write_amplification", 1),
           Pivot(df, "consumers", "entry_size_bytes", "entries_per_sec", 1000),
           Pivot(df, "batch_size", "consumers", "avg_latency_ms", 1),
           <<>>)

NoDataMessage == Msg("No data found for compression=0 and encryption=1", <<>>)

\* Mutant of EmptyFilterReturns: the emptiness check is gone.
EmptyFilterReturns_Never(filtered) == FALSE

\* if filtered_df.empty: print(...); return
EmptyFilterReturns(filtered) == filtered = <<>>

create_encryption_batch_analysis_plot(df) ==
    IF ~({"compression_level", "use_encryption"} \subseteq df.columns)
    THEN Raised("KeyError")
    ELSE
    LET filtered_df == SelectEq2(df.rows, "compression_level", 0,
                                 "use_encryption", 1)
        left == VariantPanel(filtered_df, df.columns, "entries_per_sec",
                             "thousands")
        right == VariantPanel(filtered_df, df.columns, "write_amplification",
                              "percent")
    IN
    IF EmptyFilterReturns(filtered_df)
    THEN [err |-> "none", skipped |-> TRUE, chart |-> NoChart,
          out |-> <<NoDataMessage>>]
    ELSE
    [err |-> FirstErr(<<left.err, right.err>>), skipped |-> FALSE,
     chart |-> [a |-> left, b |-> right, c |-> NoPanel, d |-> NoPanel],
     out |-> <<Msg("Generated batch analysis paper plot with variants",
                   <<Len(variants)>>)>>
             \o [k \in DOMAIN variants |->
                    Msg("data points",
                        <<variants[k][1], variants[k][2],
                          Len(SelectEq2(filtered_df, "consumers", variants[k][1],
                                        "entry_size_bytes", variants[k][2]))>>)]]

\* ------------------------------------------------------------------- main

VARIABLES
    input,      \* the file --input_file names
    outdir,     \* --output_dir: "absent", "present" or "uncreatable"
    files,      \* the artifact files of the output directory
    pc,         \* the position of main()
    df,         \* the loaded DataFrame
    console,    \* the lines printed so far
    error,      \* the uncaught exception that ended the run and where
    writes,     \* the files plt.savefig has written in this run, in order
    entered,    \* the view functions main() has called, in order
    previous    \* what the run before this one printed and left behind

vars == <<input, outdir, files, pc, df, console, error, writes, entered,
          previous>>

\* The seven views in the order main() calls them.
ViewOrder ==
    <<"encryption_effect", "compression_effect", "entry_size_effect",
      "writer_threads_effect", "batch_size_effect", "heatmaps",
      "batch_analysis">>

Views == Range(ViewOrder)

Artifacts == Views \X {"png", "pdf"}

Absent == [state |-> "absent", chart |-> NoChart]
Stale == [state |-> "stale", chart |-> NoChart]
Written(chart) == [state |-> "written", chart |-> chart]

NoError == [type |-> "none", at |-> "none"]

\* The exit status of the process: 1 after an uncaught exception.
ExitStatus == IF pc = "failed" THEN 1 ELSE 0

\* No run of the program went before.
NoPrevious ==
    [ran |-> FALSE, console |-> <<>>, error |-> NoError,
     files |-> [f \in Artifacts |-> Absent]]

\* The program is started on one of `inputs` with an output directory in
\* one of the states `dirs`.
InitFrom(inputs, dirs) ==
    /\ input \in inputs
    /\ outdir \in dirs
    /\ files = [f \in Artifacts |-> IF outdir = "present" THEN Stale ELSE Absent]
    /\ pc = "makedirs"
    /\ df = NoData
    /\ console = <<>>
    /\ error = NoError
    /\ writes = <<>>
    /\ entered = <<>>
    /\ previous = NoPrevious

Init == InitFrom(Inputs, {"absent", "present", "uncreatable"})

\* An uncaught exception: the traceback goes to stderr and the run ends.
Raise(e) ==
    /\ pc' = "failed"
    /\ error' = [type |-> e, at |-> pc]

\* Mutant of MakeOutputDir: the directory is never created and a failure
\* to create it goes unnoticed.
MakeOutputDir_Forgotten ==
    /\ pc = "makedirs"
    /\ pc' = "load"
    /\ UNCHANGED <<input, outdir, files, df, console, error, writes, entered,
                 previous>>

\* Mutant of MakeOutputDir: os.makedirs without exist_ok, which raises for
\* a directory that is already there.
MakeOutputDir_NoExistOk ==
    /\ pc = "makedirs"
    /\ IF outdir = "absent"
       THEN outdir' = "present" /\ pc' = "load" /\ UNCHANGED error
       ELSE /\ Raise(IF outdir = "present" THEN "FileExistsError" ELSE "OSError")
            /\ UNCHANGED outdir
    /\ UNCHANGED <<input, files, df, console, writes, entered, previous>>

\* os.makedirs(args.output_dir, exist_ok=True)
MakeOutputDir ==
    /\ pc = "makedirs"
    /\ IF outdir = "uncreatable"
       THEN Raise("OSError") /\ UNCHANGED outdir
       ELSE outdir' = "present" /\ pc' = "load" /\ UNCHANGED error
    /\ UNCHANGED <<input, files, df, console, writes, entered, previous>>

\* print("Loading data from ..."); df = load_gdpr_data(...);
\* print("Loaded ... benchmark results")
LoadData ==
    /\ pc = "load"
    /\ LET loaded == load_gdpr_data(input) IN
       IF loaded.err # "none"
       THEN /\ Raise(loaded.err)
            /\ console' = Append(console, Msg("Loading data from", <<>>))
            /\ UNCHANGED df
       ELSE /\ df' = loaded.df
            /\ console' = console \o <<Msg("Loading data from", <<>>),
                                       Msg("Loaded", <<Len(loaded.df.rows)>>)>>
            /\ pc' = "summary"
            /\ UNCHANGED error
    /\ UNCHANGED <<input, outdir, files, writes, entered, previous>>

\* The columns the data summary prints, in order, with their captions.
SummaryColumns ==
    <<"batch_size", "entry_size_bytes", "consumers", "use_encryption",
      "compression_level">>

\* The summary lines printed before the first column df lacks.
RECURSIVE SummaryLines(_, _)
SummaryLines(d, cols) ==
    IF cols = <<>> \/ Head(cols) \notin d.columns THEN <<>>
    ELSE <<Msg(Head(cols), Unique(d.rows, Head(cols)))>>
         \o SummaryLines(d, Tail(cols))

\* print("Data summary:") ... print("Generating plots...")
DataSummary ==
    /\ pc = "summary"
    /\ IF Range(SummaryColumns) \subseteq df.columns
       THEN /\ console' = console \o <<Msg("Data summary:", <<>>)>>
                          \o SummaryLines(df, SummaryColumns)
                          \o <<Msg("Generating plots...", <<>>)>>
            /\ pc' = ViewOrder[1]
            /\ UNCHANGED error
       ELSE /\ console' = console \o <<Msg("Data summary:", <<>>)>>
                          \o SummaryLines(df, SummaryColumns)
            /\ Raise("KeyError")
    /\ UNCHANGED <<input, outdir, files, df, writes, entered, previous>>

\* main() after the view at position i of ViewOrder returned.
After(i) == IF i < Len(ViewOrder) THEN ViewOrder[i + 1] ELSE "report"

\* Mutant of SaveFigs: only the raster file is saved.
SaveFigs_PngOnly(view) == << <<view, "png">> >>

\* plt.savefig(<view>.png); plt.savefig(<view>.pdf)
SaveFigs(view) == << <<view, "png">>, <<view, "pdf">> >>

\* Mutant of RunView: the view filters the DataFrame it is given in place
\* and leaves main() with the first row only.
RunView_InPlace(i, result) ==
    /\ pc = ViewOrder[i]
    /\ entered' = Append(entered, ViewOrder[i])
    /\ IF result.err # "none"
       THEN /\ Raise(result.err)
            /\ UNCHANGED <<files, writes, console>>
       ELSE IF ~result.skipped /\ outdir # "present"
       THEN /\ Raise("FileNotFoundError")
            /\ UNCHANGED <<files, writes, console>>
       ELSE /\ pc' = After(i)
            /\ console' = console \o result.out
            /\ UNCHANGED error
            /\ IF result.skipped
               THEN UNCHANGED <<files, writes>>
               ELSE /\ files' = [f \in Artifacts |->
                                   IF f \in Range(SaveFigs(ViewOrder[i]))
                                   THEN Written(result.chart) ELSE files[f]]
                    /\ writes' = writes \o SaveFigs(ViewOrder[i])
    /\ df' = [df EXCEPT !.rows = SubSeq(@, 1, 1)]
    /\ UNCHANGED <<input, outdir, previous>>

\* main() calls the view at position i: the view raises, or returns early,
\* or saves its figure as <view>.png and <view>.pdf.
RunView(i, result) ==
    /\ pc = ViewOrder[i]
    /\ entered' = Append(entered, ViewOrder[i])
    /\ IF result.err # "none"
       THEN /\ Raise(result.err)
            /\ UNCHANGED <<files, writes, console>>
       ELSE IF ~result.skipped /\ outdir # "present"
       THEN /\ Raise("FileNotFoundError")
            /\ UNCHANGED <<files, writes, console>>
       ELSE /\ pc' = After(i)
            /\ console' = console \o result.out
            /\ UNCHANGED error
            /\ IF result.skipped
               THEN UNCHANGED <<files, writes>>
               ELSE /\ files' = [f \in Artifacts |->
                                   IF f \in Range(SaveFigs(ViewOrder[i]))
                                   THEN Written(result.chart) ELSE files[f]]
                    /\ writes' = writes \o SaveFigs(ViewOrder[i])
    /\ UNCHANGED <<input, outdir, df, previous>>

EncryptionEffect == RunView(1, create_encryption_effect_plots(df))
CompressionEffect == RunView(2, create_compression_effect_plots(df))
EntrySizeEffect == RunView(3, create_entry_size_effect_plots(df))
WriterThreadsEffect == RunView(4, create_writer_threads_effect_plots(df))
BatchSizeEffect == RunView(5, create_batch_size_effect_plots(df))
Heatmaps == RunView(6, create_heatmaps(df))
BatchAnalysis == RunView(7, create_encryption_batch_analysis_plot(df))

\* The file names print_plot_summary lists.
plots == [i \in DOMAIN ViewOrder |-> <<ViewOrder[i], "png">>]

print_plot_summary ==
    <<Msg("GDPR LOGGER BENCHMARK ANALYSIS - PLOT SUMMARY", <<>>)>>
    \o [i \in DOMAIN plots |-> Msg(plots[i][1], <<i>>)]
    \o <<Msg("KEY FEATURES:", <<>>)>>

\* print("All plots saved to ..."); print_plot_summary()
Report ==
    /\ pc = "report"
    /\ console' = console \o <<Msg("All plots saved to", <<>>)>>
                  \o print_plot_summary
    /\ pc' = "done"
    /\ UNCHANGED <<input, outdir, files, df, error, writes, entered, previous>>

Next ==
    \/ MakeOutputDir
    \/ LoadData
    \/ DataSummary
    \/ EncryptionEffect
    \/ CompressionEffect
    \/ EntrySizeEffect
    \/ WriterThreadsEffect
    \/ BatchSizeEffect
    \/ Heatmaps
    \/ BatchAnalysis
    \/ Report

Spec == Init /\ [][Next]_vars

\* ----------------------------------------------------------------- claims

Terminated == pc \in {"done", "failed"}

\* The rows of the loaded dataset that satisfy P, by position.
RowsWhere(P(_)) == {i \in DOMAIN df.rows : P(df.rows[i])}

\* C1: a failure inside one view does not abort the run: once the first
\* view has been entered, the run ends only after all seven views have been
\* attempted.
C1_ViewFailureDoesNotAbort ==
    (Terminated /\ entered # <<>>) => entered = ViewOrder

\* C2: when no row has compression_level = 0 and use_encryption = 1, the
\* batch-analysis view returns without raising, prints its diagnostic and
\* leaves every file of the output directory as it was.
C2_EmptyBatchAnalysisWritesNothing ==
    [][(/\ pc = "batch_analysis"
        /\ RowsWhere(LAMBDA r : r.compression_level = 0
                                /\ r.use_encryption = 1) = {})
       => (/\ pc' = "report"
           /\ error' = NoError
           /\ files' = files
           /\ writes' = writes
           /\ console' = Append(console, NoDataMessage))]_vars

C2_Witness ==
    /\ pc = "report"
    /\ console[Len(console)] = NoDataMessage
    /\ files[<<"batch_analysis", "png">>] = Stale
    /\ files[<<"batch_analysis", "pdf">>] = Stale
    /\ files[<<"heatmaps", "pdf">>].state = "written"

\* The view applies a filter that matches no record of the dataset.
HasEmptyFilter(view) ==
    LET NoRow(enc, comp) ==
            RowsWhere(LAMBDA r : r.use_encryption = enc
                                 /\ r.compression_level = comp) = {}
    IN
    CASE view = "encryption_effect" ->
            \E enc \in {0, 1} : RowsWhere(LAMBDA r : r.use_encryption = enc) = {}
      [] view = "writer_threads_effect" ->
            \E enc \in {0, 1}, comp \in {0, 9} : NoRow(enc, comp)
      [] view = "batch_size_effect" ->
            \E enc \in {0, 1}, comp \in {0, 5, 9} : NoRow(enc, comp)
      [] view = "batch_analysis" -> NoRow(1, 0)
      [] OTHER -> FALSE

\* C3: every view whose filter matches zero records is skipped: it prints a
\* diagnostic, does not raise and writes no artifact.
C3_EveryViewSkipsOnEmptyFilter ==
    [][\A i \in DOMAIN ViewOrder :
          (pc = ViewOrder[i] /\ HasEmptyFilter(ViewOrder[i]))
          => (/\ error' = NoError
              /\ files' = files
              /\ writes' = writes
              /\ Len(console') > Len(console))]_vars

\* The input cannot be loaded: there is no file, pandas cannot parse it, or
\* it lacks a column the loader derives a label from.
Unloadable ==
    \/ input.kind # "table"
    \/ \E c \in {"use_encryption", "compression_level", "entry_size_bytes"} :
          c \notin input.columns

\* C4: after a load failure the run is over: no view is entered and no
\* artifact is written.
C4_LoadFailureIsFatal ==
    Unloadable =>
        /\ pc \in {"makedirs", "load", "failed"}
        /\ entered = <<>>
        /\ writes = <<>>
        /\ \A f \in Artifacts : files[f].state # "written"

C4_Witness ==
    /\ pc = "failed"
    /\ error.at = "load"
    /\ input.kind = "table"
    /\ files[<<"encryption_effect", "png">>] = Stale

\* C5: the loader never returns a dataset that lacks one of the nine
\* required fields.
C5_LoaderRejectsAnyMissingField ==
    df # NoData =>
        \A c \in {"batch_size", "entry_size_bytes", "consumers",
                  "use_encryption", "compression_level", "entries_per_sec",
                  "write_amplification", "avg_latency_ms",
                  "logical_throughput_gib_sec"} : c \in df.columns

\* C6: the exit status is zero exactly in the runs whose load succeeded.
C6_ExitStatusFollowsLoad ==
    Terminated => (ExitStatus = 0 <=> df # NoData)

\* C7: the output directory exists before any view runs or any artifact is
\* written, and a run that cannot create it ends without entering a view or
\* writing an artifact.
C7_OutputDirBeforeArtifacts ==
    /\ (entered # <<>> \/ writes # <<>>) => outdir = "present"
    /\ (\E f \in Artifacts : files[f].state = "written") => outdir = "present"
    /\ outdir = "uncreatable" =>
          /\ pc \in {"makedirs", "failed"}
          /\ entered = <<>>
          /\ writes = <<>>
          /\ \A f \in Artifacts : files[f] = Absent

C7_Witness ==
    /\ outdir = "present"
    /\ writes = << <<"encryption_effect", "png">>, <<"encryption_effect", "pdf">> >>
    /\ files[<<"encryption_effect", "png">>].state = "written"
    /\ files[<<"batch_analysis", "png">>] = Absent

ExpectedWrites ==
    << <<"encryption_effect", "png">>, <<"encryption_effect", "pdf">>,
       <<"compression_effect", "png">>, <<"compression_effect", "pdf">>,
       <<"entry_size_effect", "png">>, <<"entry_size_effect", "pdf">>,
       <<"writer_threads_effect", "png">>, <<"writer_threads_effect", "pdf">>,
       <<"batch_size_effect", "png">>, <<"batch_size_effect", "pdf">>,
       <<"heatmaps", "png">>, <<"heatmaps", "pdf">>,
       <<"batch_analysis", "png">>, <<"batch_analysis", "pdf">> >>

\* C8: a successful run in which no view is skipped enters the seven views
\* in the fixed order and writes <view>.png then <view>.pdf for each, over
\* whatever the directory held, and nothing else.
C8_FixedOrderTwoFilesPerView ==
    (/\ pc = "done"
     /\ RowsWhere(LAMBDA r : r.compression_level = 0 /\ r.use_encryption = 1)
            # {})
    => /\ entered = <<"encryption_effect", "compression_effect",
                      "entry_size_effect", "writer_threads_effect",
                      "batch_size_effect", "heatmaps", "batch_analysis">>
       /\ writes = ExpectedWrites
       /\ \A f \in Artifacts : files[f].state = "written"

C8_Witness ==
    /\ pc = "done"
    /\ writes = ExpectedWrites
    /\ Len(df.rows) = 2

\* The sum of a metric over the rows at the positions idx.
RECURSIVE SumOver(_, _)
SumOver(idx, metric) ==
    IF idx = {} THEN Zero
    ELSE LET i == CHOOSE i \in idx : TRUE
         IN RatAdd(df.rows[i][metric], SumOver(idx \ {i}, metric))

\* v is the arithmetic mean of the metric over the rows at idx.
IsMeanOver(v, idx, metric) ==
    /\ idx # {}
    /\ v[2] > 0
    /\ RatMulInt(v, Cardinality(idx)) = SumOver(idx, metric)

\* The throughput subplot of a written batch analysis: every variant's line
\* has one point per batch size of the variant's rows, at that batch size's
\* axis position, and the point is the mean over exactly those rows.
BatchAnalysisIsGroupMean ==
    LET file == files[<<"batch_analysis", "png">>]
        panel == file.chart.a
    IN file.state = "written" =>
       \A k \in DOMAIN panel.series :
          LET line == panel.series[k]
              subset == RowsWhere(LAMBDA r :
                            /\ r.compression_level = 0
                            /\ r.use_encryption = 1
                            /\ r.consumers = line.label[1]
                            /\ r.entry_size_bytes = line.label[2])
              keys == {df.rows[i].batch_size : i \in subset}
          IN /\ Len(line.xs) = Cardinality(keys)
             /\ Len(line.ys) = Len(line.xs)
             /\ {panel.ticks[line.xs[j]] : j \in DOMAIN line.xs} = keys
             /\ \A j \in DOMAIN line.xs :
                   IsMeanOver(RatMulInt(line.ys[j], 1000),
                              {i \in subset : df.rows[i].batch_size
                                              = panel.ticks[line.xs[j]]},
                              "entries_per_sec")

\* The unfiltered throughput heatmap: one row per batch size and one column
\* per compression level of the dataset, each cell the mean over exactly
\* the rows of its pair and NaN where there is none.
HeatmapIsGroupMean ==
    LET file == files[<<"heatmaps", "png">>]
        panel == file.chart.a
    IN file.state = "written" =>
       /\ panel.ticks = SortedSeq({df.rows[i].batch_size : i \in DOMAIN df.rows})
       /\ panel.cols
            = SortedSeq({df.rows[i].compression_level : i \in DOMAIN df.rows})
       /\ \A i \in DOMAIN panel.ticks, j \in DOMAIN panel.cols :
             LET bucket == RowsWhere(LAMBDA r :
                               /\ r.batch_size = panel.ticks[i]
                               /\ r.compression_level = panel.cols[j])
             IN IF bucket = {} THEN panel.cells[i][j] = NaN
                ELSE IsMeanOver(RatMulInt(panel.cells[i][j], 1000), bucket,
                                "entries_per_sec")

\* C9: an aggregation grouped by a dimension has exactly one entry per
\* value of the dimension present in the (filtered) dataset, and each entry
\* is the arithmetic mean of the metric over exactly the rows of that value.
C9_AggregationIsGroupMean == BatchAnalysisIsGroupMean /\ HeatmapIsGroupMean

\* Two rows of batch size 512 with 50000 and 70000 entries/sec are plotted
\* as their mean, 60 K entries/sec.
C9_Witness ==
    LET file == files[<<"batch_analysis", "png">>] IN
    /\ file.state = "written"
    /\ Len(df.rows) = 2
    /\ df.rows[1].entries_per_sec = <<50000, 1>>
    /\ df.rows[2].entries_per_sec = <<70000, 1>>
    /\ file.chart.a.ticks = <<512>>
    /\ Len(file.chart.a.series) = 1
    /\ file.chart.a.series[1].ys = << <<60, 1>> >>

\* The column(s) that select the rows of a series, and the axis column, of
\* each panel of the five bar and line views.
SeriesColumns(view, panel) ==
    CASE view = "encryption_effect" -> <<"use_encryption">>
      [] view = "compression_effect" -> <<"compression_level">>
      [] view = "entry_size_effect" -> <<"entry_size_bytes">>
      [] view = "writer_threads_effect" ->
            (CASE panel = "a" -> <<"batch_size">>
               [] panel = "c" -> <<"entry_size_bytes">>
               [] OTHER -> <<"use_encryption", "compression_level">>)
      [] view = "batch_size_effect" ->
            (CASE panel = "b" -> <<"entry_size_bytes">>
               [] panel = "c" -> <<"consumers">>
               [] OTHER -> <<"use_encryption", "compression_level">>)

AxisColumn(view, panel) ==
    CASE view = "encryption_effect" ->
            (CASE panel = "a" -> "batch_size" [] panel = "b" -> "entry_size_bytes"
               [] panel = "c" -> "compression_level" [] OTHER -> "consumers")
      [] view = "compression_effect" ->
            (CASE panel = "a" -> "batch_size" [] panel = "b" -> "entry_size_bytes"
               [] panel = "c" -> "use_encryption" [] OTHER -> "consumers")
      [] view = "entry_size_effect" ->
            (CASE panel = "a" -> "batch_size" [] panel = "b" -> "compression_level"
               [] panel = "c" -> "use_encryption" [] OTHER -> "consumers")
      [] view = "writer_threads_effect" -> "consumers"
      [] view = "batch_size_effect" -> "batch_size"

\* Some record of the dataset lies in the bucket of the series at the tick.
Backed(view, panel, label, tick) ==
    LET cols == SeriesColumns(view, panel) IN
    RowsWhere(LAMBDA r : /\ \A n \in DOMAIN cols : r[cols[n]] = label[n]
                         /\ r[AxisColumn(view, panel)] = tick) # {}

\* C10: in every series of every written chart, a displayed value that no
\* record backs is the fallback of its metric: 1.0 for write amplification,
\* 0 for throughput.
C10_UnbackedValuesAreFallbacks ==
    \A view \in {"encryption_effect", "compression_effect", "entry_size_effect",
                 "writer_threads_effect", "batch_size_effect"} :
       files[<<view, "png">>].state = "written" =>
          \A p \in {"a", "b", "c", "d"} :
             LET panel == files[<<view, "png">>].chart[p] IN
             \A k \in DOMAIN panel.series :
                \A j \in DOMAIN panel.series[k].values :
                   \/ Backed(view, p, panel.series[k].label, panel.ticks[j])
                   \/ /\ panel.metric = "write_amplification"
                      /\ panel.series[k].values[j] = One
                   \/ /\ panel.metric \in {"entries_per_sec",
                                           "logical_throughput_gib_sec"}
                      /\ panel.series[k].values[j] = Zero

BarAndLineViews ==
    {"encryption_effect", "compression_effect", "entry_size_effect",
     "writer_threads_effect", "batch_size_effect"}

\* The distinct values of a column observed in the loaded dataset, ascending.
Observed(col) == SortedSeq({df.rows[i][col] : i \in DOMAIN df.rows})

\* C11: the axis positions of every panel of every written bar or line chart
\* are the sorted distinct values of the panel's axis column observed in the
\* dataset: a value that occurs gets a position, a value that does not occur
\* gets none.
C11_AxisKeysAreObservedValues ==
    \A view \in BarAndLineViews :
       files[<<view, "png">>].state = "written" =>
          \A p \in {"a", "b", "c", "d"} :
             files[<<view, "png">>].chart[p].ticks
                = Observed(AxisColumn(view, p))

\* ------------------------------------------- runs on unmapped label values

\* Rows whose entry size, compression level and encryption flag range over
\* the keys of the three label tables and one value outside each.
LabelRowDomain ==
    {FullRow(512, es, 4, enc, comp, level) :
        es \in {1024, 2048, 4096, 8192}, comp \in {0, 5, 9, 3},
        enc \in {0, 1, 2}, level \in MeasureLevels}

LabelInputs ==
    {Table(RequiredColumns, rows) : rows \in SeqsUpTo(LabelRowDomain, MaxRows)}

InitLabels == InitFrom(LabelInputs, {"absent"})

SpecLabels == InitLabels /\ [][Next]_vars

\* The label tables as the documentation of the loader gives them; no
\* label for any other value.
DocumentedLabel(col, v) ==
    CASE col = "use_encryption" /\ v = 0 -> "No Encryption"
      [] col = "use_encryption" /\ v = 1 -> "With Encryption"
      [] col = "compression_level" /\ v = 0 -> "No Compression"
      [] col = "compression_level" /\ v = 5 -> "Medium (5)"
      [] col = "compression_level" /\ v = 9 -> "High (9)"
      [] col = "entry_size_bytes" /\ v = 1024 -> "1KB"
      [] col = "entry_size_bytes" /\ v = 2048 -> "2KB"
      [] col = "entry_size_bytes" /\ v = 4096 -> "4KB"
      [] OTHER -> "NaN"

\* The sum of a metric over the rows of the input file at the positions idx.
RECURSIVE SumInput(_, _)
SumInput(idx, metric) ==
    IF idx = {} THEN Zero
    ELSE LET i == CHOOSE i \in idx : TRUE
         IN RatAdd(input.rows[i][metric], SumInput(idx \ {i}, metric))

\* C12: loading a table never fails on a value outside a label table; the
\* loaded dataset has the rows of the file, in order, each with its raw
\* values unchanged and with the documented label or none; and the
\* write-amplification heatmap has a row for every entry size of the file,
\* mapped or not, whose cells are the means over the file's rows.
C12_UnmappedLabelsKeepRows ==
    /\ error.at # "load"
    /\ pc \notin {"makedirs", "load"} =>
          /\ Len(df.rows) = Len(input.rows)
          /\ \A i \in DOMAIN df.rows :
                /\ \A c \in input.columns : df.rows[i][c] = input.rows[i][c]
                /\ df.rows[i].encryption_label
                     = DocumentedLabel("use_encryption",
                                       input.rows[i].use_encryption)
                /\ df.rows[i].compression_label
                     = DocumentedLabel("compression_level",
                                       input.rows[i].compression_level)
                /\ df.rows[i].entry_size_label
                     = DocumentedLabel("entry_size_bytes",
                                       input.rows[i].entry_size_bytes)
    /\ LET file == files[<<"heatmaps", "png">>]
           panel == file.chart.b
       IN file.state = "written" =>
          /\ panel.ticks = SortedSeq({input.rows[i].entry_size_bytes :
                                         i \in DOMAIN input.rows})
          /\ panel.cols = SortedSeq({input.rows[i].use_encryption :
                                        i \in DOMAIN input.rows})
          /\ \A i \in DOMAIN panel.ticks, j \in DOMAIN panel.cols :
                LET idx == {n \in DOMAIN input.rows :
                               /\ input.rows[n].entry_size_bytes = panel.ticks[i]
                               /\ input.rows[n].use_encryption = panel.cols[j]}
                IN IF idx = {} THEN panel.cells[i][j] = NaN
                   ELSE /\ panel.cells[i][j][2] > 0
                        /\ RatMulInt(panel.cells[i][j], Cardinality(idx))
                             = SumInput(idx, "write_amplification")

\* Two rows of entry size 8192 and compression level 3, outside the label
\* tables, were loaded without labels and averaged in the heatmap.
C12_Witness ==
    /\ files[<<"heatmaps", "png">>].state = "written"
    /\ Len(df.rows) = 2
    /\ df.rows[1].entry_size_bytes = 8192
    /\ df.rows[1].entry_size_label = "NaN"
    /\ df.rows[1].compression_level = 3
    /\ df.rows[1].compression_label = "NaN"
    /\ df.rows[2].entry_size_label = "NaN"
    /\ files[<<"heatmaps", "png">>].chart.b.ticks = <<8192>>
    /\ files[<<"heatmaps", "png">>].chart.b.cells = << << <<9, 8>> >> >>

\* ------------------------------------------------- write amplification

\* The write-amplification values a chart of the view displays.
WAValues(view, chart) ==
    UNION {
       IF chart[p].metric # "write_amplification" THEN {}
       ELSE IF view = "heatmaps"
       THEN {chart[p].cells[i][j] :
                i \in DOMAIN chart[p].ticks, j \in DOMAIN chart[p].cols}
            \ {NaN}
       ELSE IF view = "batch_analysis"
       THEN UNION {Range(chart[p].series[k].ys) : k \in DOMAIN chart[p].series}
       ELSE UNION {Range(chart[p].series[k].values) :
                      k \in DOMAIN chart[p].series}
       : p \in {"a", "b", "c", "d"}}

\* v is a raw ratio: the mean of the measured ratios of some records, or the
\* ratio 1.0 that stands for a missing bucket.
IsRawRatio(v) ==
    \/ v = One
    \/ \E idx \in SUBSET DOMAIN df.rows : IsMeanOver(v, idx, "write_amplification")

\* v is a percentage: (r - 1) * 100 for the mean r of some records.
IsPercentage(v) ==
    \E idx \in SUBSET DOMAIN df.rows :
       IsMeanOver(RatAdd(RatDivInt(v, 100), One), idx, "write_amplification")

\* C13: the write-amplification values of one written chart are all raw
\* ratios or all percentages, fallback values included.
C13_OneRepresentationPerChart ==
    \A view \in Views :
       files[<<view, "png">>].state = "written" =>
          LET shown == WAValues(view, files[<<view, "png">>].chart) IN
          \/ \A v \in shown : IsRawRatio(v)
          \/ \A v \in shown : IsPercentage(v)

\* One run wrote a ratio chart that holds a measured 1.25 next to the
\* fallback 1.0, and the batch analysis, whose value is the percentage 25.
C13_Witness ==
    /\ files[<<"batch_size_effect", "png">>].state = "written"
    /\ Len(files[<<"batch_size_effect", "png">>].chart.d.series) = 2
    /\ files[<<"batch_size_effect", "png">>].chart.d.series[2].values
         = << <<5, 4>>, One >>
    /\ files[<<"batch_analysis", "png">>].state = "written"
    /\ files[<<"batch_analysis", "png">>].chart.b.series[1].ys = << <<25, 1>> >>

\* The rows of the batch-analysis filter that belong to the variant `label`
\* and have the batch size bs, by position.
VariantBucket(label, bs) ==
    RowsWhere(LAMBDA r : /\ r.compression_level = 0
                         /\ r.use_encryption = 1
                         /\ r.consumers = label[1]
                         /\ r.entry_size_bytes = label[2]
                         /\ r.batch_size = bs)

\* C14: every point of the write-amplification subplot of a written batch
\* analysis is (m - 1) * 100 for the mean ratio m of the point's bucket: 0
\* for m = 1.0, 25 for m = 1.25, and never negative.
C14_PercentageOfMeanRatio ==
    LET file == files[<<"batch_analysis", "png">>]
        panel == file.chart.b
    IN file.state = "written" =>
       \A k \in DOMAIN panel.series :
          LET line == panel.series[k] IN
          \A j \in DOMAIN line.ys :
             LET bucket == VariantBucket(line.label, panel.ticks[line.xs[j]])
                 y == line.ys[j]
             IN /\ bucket # {}
                /\ y[2] > 0
                /\ y[1] >= 0
                /\ RatMulInt(RatAdd(y, <<100, 1>>), Cardinality(bucket))
                     = RatMulInt(SumOver(bucket, "write_amplification"), 100)
                /\ IsMeanOver(One, bucket, "write_amplification") => y = Zero
                /\ IsMeanOver(<<5, 4>>, bucket, "write_amplification")
                      => y = <<25, 1>>

\* A written batch analysis whose one point stands for a bucket of two
\* records of ratio 1.25 and shows 25.
C14_Witness ==
    /\ files[<<"batch_analysis", "png">>].state = "written"
    /\ Len(df.rows) = 2
    /\ VariantBucket(<<4, 1024>>, 512) = {1, 2}
    /\ IsMeanOver(<<5, 4>>, {1, 2}, "write_amplification")
    /\ Len(files[<<"batch_analysis", "png">>].chart.b.series) = 1
    /\ files[<<"batch_analysis", "png">>].chart.b.series[1].ys
         = << <<25, 1>> >>

\* ------------------------------------------------------- a second run

\* The program is started again on the same input file and output
\* directory once the first run has ended, whichever way it ended.
Rerun ==
    /\ Terminated
    /\ ~previous.ran
    /\ previous' = [ran |-> TRUE, console |-> console, error |-> error,
                    files |-> files]
    /\ pc' = "makedirs"
    /\ df' = NoData
    /\ console' = <<>>
    /\ error' = NoError
    /\ writes' = <<>>
    /\ entered' = <<>>
    /\ UNCHANGED <<input, outdir, files>>

NextTwice ==
    \/ Next
    \/ Rerun

SpecTwice == Init /\ [][NextTwice]_vars

\* C15: when the second run on the same input and output directory has
\* ended, it has printed what the first run printed, ended the way the
\* first run ended, and the output directory holds the files it held after
\* the first run, with the same charts.
C15_SecondRunRepeatsFirst ==
    (previous.ran /\ Terminated) =>
       /\ console = previous.console
       /\ error = previous.error
       /\ files = previous.files

\* A second run that wrote all fourteen files over those of a first run
\* that had found no output directory.
C15_Witness ==
    /\ previous.ran
    /\ pc = "done"
    /\ Len(writes) = 14
    /\ Len(df.rows) = 2
    /\ console = previous.console
    /\ \A f \in Artifacts : previous.files[f].state = "written"
    /\ files = previous.files

\* ------------------------------------------------- a failing plt.savefig

\* What the view function named `view` does on the dataset d.
ViewResult(view, d) ==
    CASE view = "encryption_effect" -> create_encryption_effect_plots(d)
      [] view = "compression_effect" -> create_compression_effect_plots(d)
      [] view = "entry_size_effect" -> create_entry_size_effect_plots(d)
      [] view = "writer_threads_effect" -> create_writer_threads_effect_plots(d)
      [] view = "batch_size_effect" -> create_batch_size_effect_plots(d)
      [] view = "heatmaps" -> create_heatmaps(d)
      [] view = "batch_analysis" -> create_encryption_batch_analysis_plot(d)

\* A file plt.savefig opened for writing and did not finish.
Partial == [state |-> "partial", chart |-> NoChart]

\* A view has drawn its figure and its n-th plt.savefig raises OSError (the
\* device is full, the file is not writable): the files saved before it are
\* complete, the file being saved is truncated or was never opened, and the
\* exception ends the run, nothing of the view after savefig being reached.
SaveFigFails ==
    \E i \in DOMAIN ViewOrder :
       LET view == ViewOrder[i]
           result == ViewResult(view, df)
       IN /\ pc = view
          /\ result.err = "none"
          /\ ~result.skipped
          /\ outdir = "present"
          /\ entered' = Append(entered, view)
          /\ \E n \in DOMAIN SaveFigs(view), opened \in BOOLEAN :
                /\ files' = [f \in Artifacts |->
                                IF \E m \in 1..(n - 1) : f = SaveFigs(view)[m]
                                THEN Written(result.chart)
                                ELSE IF f = SaveFigs(view)[n] /\ opened
                                THEN Partial
                                ELSE files[f]]
                /\ writes' = writes \o SubSeq(SaveFigs(view), 1, n - 1)
          /\ Raise("OSError")
          /\ UNCHANGED <<input, outdir, df, console, previous>>

NextIO ==
    \/ Next
    \/ SaveFigFails

SpecIO == Init /\ [][NextIO]_vars

\* C16: when the run has ended, "All plots saved" was printed only if every
\* view that was not skipped has both its files completely written, no view
\* has one of its two files written without the other, and no file of the
\* output directory is a truncated one.
C16_NoHalfWrittenView ==
    Terminated =>
       /\ (\E n \in DOMAIN console : console[n].text = "All plots saved to")
             => \A view \in Views :
                   \/ ViewResult(view, df).skipped
                   \/ /\ files[<<view, "png">>].state = "written"
                      /\ files[<<view, "pdf">>].state = "written"
                      /\ {<<view, "png">>, <<view, "pdf">>} \subseteq Range(writes)
       /\ \A view \in Views :
             <<view, "png">> \in Range(writes) <=> <<view, "pdf">> \in Range(writes)
       /\ \A f \in Artifacts : files[f].state # "partial"

\* C17: after a completed run, every view the plot summary lists by file
\* name was generated in this run: its file is among those plt.savefig
\* wrote.
C17_SummaryListsGeneratedViews ==
    pc = "done" =>
       \A i \in DOMAIN ViewOrder :
          (\E n \in DOMAIN console : console[n] = Msg(ViewOrder[i], <<i>>))
             => <<ViewOrder[i], "png">> \in Range(writes)

\* C18: the dataset is assigned by the load step only and no later step
\* changes it; and what a view prints and saves is what the view function
\* yields on the dataset as loaded from the input file, whichever views ran
\* before it.
C18_DatasetReadOnly ==
    [][/\ pc # "load" => df' = df
       /\ (pc = "load" /\ pc' # "failed") => df' = load_gdpr_data(input).df
       /\ \A view \in Views :
             (pc = view /\ pc' # "failed") =>
                LET result == ViewResult(view, load_gdpr_data(input).df) IN
                /\ console' = console \o result.out
                /\ \A kind \in {"png", "pdf"} :
                      files'[<<view, kind>>]
                         = IF result.skipped THEN files[<<view, kind>>]
                           ELSE Written(result.chart)]_vars

\* All seven views have run on a dataset of two rows, which is still the
\* dataset as loaded, and the last view's chart is the one it yields on it.
C18_Witness ==
    /\ pc = "done"
    /\ Len(writes) = 14
    /\ Len(df.rows) = 2
    /\ df = load_gdpr_data(input).df
    /\ files[<<"batch_analysis", "png">>].chart
         = create_encryption_batch_analysis_plot(load_gdpr_data(input).df).chart

\* C19: the encryption-effect view draws its chart for every dataset, and in
\* every panel an encryption setting that has rows has one bar per axis
\* position, the k-th bar being the mean of the panel's metric over the rows
\* with that setting and the k-th axis value, and no measured value where
\* there is no such row.
C19_EncryptionBarsAligned ==
    /\ ~(error.at = "encryption_effect" /\ error.type = "ValueError")
    /\ LET file == files[<<"encryption_effect", "png">>] IN
       file.state = "written" =>
          \A p \in {"a", "b", "c", "d"} :
             LET panel == file.chart[p]
                 div == IF panel.metric = "entries_per_sec" THEN 1000 ELSE 1
                 bucket(k, j) ==
                    RowsWhere(LAMBDA r :
                       /\ r.use_encryption = panel.series[k].label[1]
                       /\ r[AxisColumn("encryption_effect", p)] = panel.ticks[j])
             IN \A k \in DOMAIN panel.series :
                   /\ RowsWhere(LAMBDA r : r.use_encryption
                                              = panel.series[k].label[1]) # {}
                         => Len(panel.series[k].values) = Len(panel.ticks)
                   /\ \A j \in DOMAIN panel.series[k].values :
                         IF bucket(k, j) = {}
                         THEN panel.series[k].values[j] \in {Zero, NaN}
                         ELSE IsMeanOver(
                                 RatMulInt(panel.series[k].values[j], div),
                                 bucket(k, j), panel.metric)

\* ------------------------------------------- runs on scaling measurements

MaxRowsScaling == 3

\* Rows of two entry sizes and two writer counts, with and without
\* encryption, at both measurement levels and from a run that wrote
\* nothing (0 entries/sec).
ScalingRowDomain ==
    {FullRow(512, es, c, enc, 0, level) :
        es \in EntrySizeValues, c \in ConsumerValues, enc \in EncryptionValues,
        level \in MeasureLevels}
    \cup {[FullRow(512, es, c, enc, 0, 1) EXCEPT !.entries_per_sec = Zero] :
            es \in EntrySizeValues, c \in ConsumerValues,
            enc \in EncryptionValues}

ScalingInputs ==
    {Table(RequiredColumns, rows) :
        rows \in SeqsUpTo(ScalingRowDomain, MaxRowsScaling)}

InitScaling == InitFrom(ScalingInputs, {"present"})

SpecScaling == InitScaling /\ [][Next]_vars

\* The rows of entry size es measured with c writers, by position.
ScalingBucket(es, c) ==
    RowsWhere(LAMBDA r : r.entry_size_bytes = es /\ r.consumers = c)

\* The mean throughput of the rows at idx (idx not empty).
MeanThroughput(idx) ==
    RatDivInt(SumOver(idx, "entries_per_sec"), Cardinality(idx))

\* C20: building the writer-threads chart never fails on a dataset with all
\* columns; in its scaling panel an entry size has a series only if it has
\* rows at the smallest writer count of the dataset whose mean throughput is
\* positive; a series is 1 at the smallest writer count, mean(c) /
\* mean(smallest) at every other writer count c with rows and 0 at one
\* without; the ideal line is c / smallest over the sorted writer counts.
C20_ScalingAgainstSmallestWriterCount ==
    /\ error.at # "writer_threads_effect"
    /\ LET file == files[<<"writer_threads_effect", "png">>]
           panel == file.chart.c
           smallest == SetMin({df.rows[i].consumers : i \in DOMAIN df.rows})
       IN file.state = "written" =>
          /\ panel.ticks = Observed("consumers")
          /\ panel.ideal = [j \in DOMAIN panel.ticks |->
                               Rat(panel.ticks[j], smallest)]
          /\ \A k \in DOMAIN panel.series :
                LET es == panel.series[k].label[1]
                    values == panel.series[k].values
                IN /\ ScalingBucket(es, smallest) # {}
                   /\ SumOver(ScalingBucket(es, smallest), "entries_per_sec")[1] > 0
                   /\ Len(values) = Len(panel.ticks)
                   /\ \A j \in DOMAIN values :
                         LET c == panel.ticks[j] IN
                         /\ c = smallest => values[j] = One
                         /\ ScalingBucket(es, c) = {} => values[j] = Zero
                         /\ ScalingBucket(es, c) # {} =>
                               /\ values[j][2] > 0
                               /\ MeanThroughput(ScalingBucket(es, c))
                                    = RatMulInt(
                                         RatDivInt(
                                            MeanThroughput(
                                               ScalingBucket(es, smallest)),
                                            values[j][2]),
                                         values[j][1])

\* A written scaling panel over the writer counts 4 and 8: the 1KB entries
\* go from 50000 to 70000 entries/sec and are plotted as 1 and 7/5, the 4KB
\* entries have rows at 8 writers only and are not plotted.
C20_Witness ==
    /\ files[<<"writer_threads_effect", "png">>].state = "written"
    /\ Len(df.rows) = 3
    /\ ScalingBucket(1024, 4) # {}
    /\ ScalingBucket(4096, 4) = {}
    /\ ScalingBucket(4096, 8) # {}
    /\ files[<<"writer_threads_effect", "png">>].chart.c.ticks = <<4, 8>>
    /\ files[<<"writer_threads_effect", "png">>].chart.c.ideal
         = <<One, <<2, 1>> >>
    /\ files[<<"writer_threads_effect", "png">>].chart.c.series
         = << [label |-> <<1024>>, values |-> <<One, <<7, 5>> >>] >>

====
